---- MODULE Spec2Model ----
(***************************************************************************)
(* scripts/analyze_rdc.py: the RenderDoc capture report script.            *)
(*                                                                         *)
(* The script is sequential.  Its state is the module namespace, the       *)
(* locals of analyze_capture, the call stacks of the two recursive walks   *)
(* (count_actions, print_actions) and the text written to standard output. *)
(* The host's object graph (action forest, textures, buffers) is the       *)
(* input; rd.ActionFlags / rd.TextureCategory bitmasks are modelled as the *)
(* set of the single-bit names that are set, and  mask & Bit  as           *)
(* membership of Bit in that set.                                          *)
(***************************************************************************)
EXTENDS Integers, Sequences, FiniteSets

VARIABLES
    entry,              \* how the run began: "script", "analyze_capture", "print_actions"
    capture,            \* the host's object graph behind the controller
    injected,           \* names the host put into the module namespace before execution
    importable,         \* whether "import renderdoc" can be satisfied
    modname,            \* the module's __name__
    globals,            \* names bound in the module namespace
    pc,                 \* position in the script
    actions,            \* analyze_capture: actions
    total_draws,        \* analyze_capture: total_draws
    total_dispatches,   \* analyze_capture: total_dispatches
    cstack,             \* frames of count_actions: [list, i]
    counted,            \* log of the increments made by count_actions: <<node, kind>>
    textures,           \* analyze_capture: textures
    ti,                 \* position of "for tex in textures"
    render_targets,     \* analyze_capture: render_targets
    depth_targets,      \* analyze_capture: depth_targets
    regular_textures,   \* analyze_capture: regular_textures
    li,                 \* position of "for tex in render_targets[:20]"
    pstack,             \* frames of print_actions: [list, i, depth]
    visits,             \* log of the loop iterations of print_actions: <<node, depth>>
    calls,              \* log of the controller accessors called
    out                 \* lines printed to standard output

vars == <<entry, capture, injected, importable, modname, globals, pc, actions,
          total_draws, total_dispatches, cstack, counted, textures, ti,
          render_targets, depth_targets, regular_textures, li, pstack, visits,
          calls, out>>

(***************************************************************************)
(* Bounds of the model.                                                    *)
(***************************************************************************)
\* Largest number of nodes of an enumerated action forest.
MaxNodes == 5
\* Largest length of an enumerated texture list (above the listing cap).
MaxTextures == 32
\* Frames the interpreter lets count_actions / print_actions nest before it
\* raises RecursionError (sys.getrecursionlimit(), scaled down).
RecursionLimit == 6

(***************************************************************************)
(* Helpers.                                                                *)
(***************************************************************************)
Range(s) == {s[k] : k \in 1..Len(s)}

Min(a, b) == IF a < b THEN a ELSE b

Ids(n) == [k \in 1..n |-> k]

\* s[:n]
Take(s, n) == SubSeq(s, 1, Min(n, Len(s)))

Line(kind, data) == [kind |-> kind, data |-> data]

(***************************************************************************)
(* rd.ActionFlags bits tested by the script, and one it never tests.       *)
(***************************************************************************)
Drawcall == "Drawcall"
Dispatch == "Dispatch"
Clear == "Clear"
PassBoundary == "PassBoundary"
SetMarker == "SetMarker"
PushMarker == "PushMarker"
PopMarker == "PopMarker"
Present == "Present"

\* rd.TextureCategory bits tested by the script, and one it never tests.
ColorTarget == "ColorTarget"
DepthTarget == "DepthTarget"
ShaderRead == "ShaderRead"

(***************************************************************************)
(* The host's inputs.                                                      *)
(***************************************************************************)
\* Flag masks given to the nodes of an enumerated forest, in rotation.
FlagChoices ==
    << {Drawcall}, {Dispatch}, {Clear}, {},
       {Drawcall, Dispatch}, {PassBoundary, PushMarker},
       {SetMarker, PopMarker, Present},
       {Drawcall, Dispatch, Clear, PassBoundary, SetMarker, PushMarker,
        PopMarker, Present} >>

NodeFlags(n, rot) ==
    [k \in 1..n |-> FlagChoices[((k - 1 + rot) % Len(FlagChoices)) + 1]]

\* Every third node (shifted by rot) carries a custom name.
NodeNames(n, rot) ==
    [k \in 1..n |-> IF (k + rot) % 3 = 0 THEN "marker" ELSE ""]

\* Node k of a forest hangs under the root list (0), under node k-1 or
\* under node k-2.
ParentChoices(k) == {j \in {0, k - 1, k - 2} : j >= 0}

RECURSIVE ParentVectors(_)
ParentVectors(n) ==
    IF n = 0 THEN {<<>>}
    ELSE {Append(p, j) : p \in ParentVectors(n - 1), j \in ParentChoices(n)}

\* The children of node k (k = 0: the root list), in ascending order.
ChildrenOf(p, k) == SelectSeq(Ids(Len(p)), LAMBDA j : p[j] = k)

RECURSIVE IsAncestor(_, _, _)
IsAncestor(p, a, k) ==
    IF k = 0 THEN FALSE
    ELSE IF p[k] = a THEN TRUE
    ELSE IsAncestor(p, a, p[k])

\* A forest of Len(p) nodes; back # 0 adds node `back` to the children of
\* the last node (a cycle when `back` is that node or one of its ancestors).
Graph(p, back, rot) ==
    LET n == Len(p)
    IN  [ roots |-> ChildrenOf(p, 0),
          children |-> [k \in 1..n |->
                          IF back # 0 /\ k = n
                          THEN Append(ChildrenOf(p, k), back)
                          ELSE ChildrenOf(p, k)],
          flags |-> NodeFlags(n, rot),
          customName |-> NodeNames(n, rot),
          eventId |-> [k \in 1..n |-> 10 * k] ]

Rotations == 0..(Len(FlagChoices) - 1)

Forests ==
    {Graph(p, 0, rot) :
        p \in UNION {ParentVectors(n) : n \in 0..MaxNodes}, rot \in Rotations}

CyclicGraphs ==
    UNION { {Graph(p, back, rot) :
                back \in {b \in {1, Len(p)} : b = Len(p) \/ IsAncestor(p, b, Len(p))},
                rot \in Rotations} :
            p \in UNION {ParentVectors(n) : n \in 1..MaxNodes} }

\* A chain one node deeper than the interpreter lets count_actions nest.
DeepChains ==
    {Graph([k \in 1..(RecursionLimit + 1) |-> k - 1], 0, rot) : rot \in Rotations}

\* [{id:1, DRAW}, {id:2, DISPATCH, children:[{id:3, CLEAR}]}]
ExampleGraph == Graph(<<0, 0, 2>>, 0, 0)

\* Texture masks repeated along an enumerated texture list.
TexturePatterns ==
    << <<{ColorTarget}>>,
       <<{ColorTarget}, {DepthTarget}>>,
       <<{ColorTarget, DepthTarget}, {}, {ColorTarget}>>,
       <<{ShaderRead}, {DepthTarget}>>,
       <<{DepthTarget}, {ColorTarget, ShaderRead}, {ColorTarget, DepthTarget}, {}>> >>

Texture(k, mask) ==
    [ resourceId |-> 100 + k,
      creationFlags |-> mask,
      width |-> 64 * k,
      height |-> 32 * k,
      format |-> [hasName |-> (k % 2 = 0), name |-> "R8G8B8A8_UNORM", raw |-> "<format>"] ]

TextureList(pat, n) ==
    [k \in 1..n |-> Texture(k, pat[((k - 1) % Len(pat)) + 1])]

TextureLists ==
    {TextureList(TexturePatterns[q], n) :
        q \in 1..Len(TexturePatterns), n \in 0..MaxTextures}

ExampleTextures == TextureList(TexturePatterns[2], 2)

Capture(g, texs, nbuf) ==
    [ api |-> "Vulkan",
      roots |-> g.roots,
      children |-> g.children,
      flags |-> g.flags,
      customName |-> g.customName,
      eventId |-> g.eventId,
      textures |-> texs,
      buffers |-> Ids(nbuf) ]

\* Names the host application may inject into the script's namespace.
HostNames == {"pyrenderdoc", "renderdoc", "qrenderdoc"}

(***************************************************************************)
(* The tests and conversions of the script.                                *)
(***************************************************************************)
\* dir() without arguments: the names of the current local scope.
Dir(scope) == scope

\* main() has bound no local name when it evaluates dir().
MainLocals == {}

UsageLine ==
    Line("usage", "This script must be run via: renderdoccmd capture.rdc --python-script analyze_rdc.py")

\* A further call of a walk fits under the interpreter's recursion limit.
CanCall(stack) == Len(stack) < RecursionLimit

\* action.flags & rd.ActionFlags.Drawcall
CountsAsDraw(mask) == Drawcall \in mask

\* Faulty variant: the Dispatch test chained to the Drawcall test with elif.
CountsAsDispatchElif(mask) == Dispatch \in mask /\ Drawcall \notin mask

\* action.flags & rd.ActionFlags.Dispatch
CountsAsDispatch(mask) == Dispatch \in mask

\* len(action.children) > 0
HasChildren(kids) == Len(kids) > 0

\* Faulty variant: the depth test made before the color test.
ClassifyDepthFirst(mask) ==
    IF DepthTarget \in mask THEN "depth_targets"
    ELSE IF ColorTarget \in mask THEN "render_targets"
    ELSE "regular_textures"

\* if ColorTarget / elif DepthTarget / else: the list the texture joins.
Classify(mask) ==
    IF ColorTarget \in mask THEN "render_targets"
    ELSE IF DepthTarget \in mask THEN "depth_targets"
    ELSE "regular_textures"

\* Faulty variant: list.insert(0, tex)
ListInsertFront(list, tex) == <<tex>> \o list

\* list.append(tex)
ListAppend(list, tex) == Append(list, tex)

\* Faulty variant: a cap off by one.
ListingCapOffByOne == 20 + 1

\* render_targets[:20]
ListingCap == 20

\* str(tex.format.Name()) if hasattr(tex.format, 'Name') else str(tex.format)
FormatLabel(fmt) == IF fmt.hasName THEN fmt.name ELSE fmt.raw

LabelIf(mask, bit, label) == IF bit \in mask THEN <<label>> ELSE <<>>

\* Faulty variant: the PushMarker and PopMarker labels exchanged.
FlagLabelsSwapped(mask) ==
    LabelIf(mask, Drawcall, "DRAW") \o
    LabelIf(mask, Dispatch, "DISPATCH") \o
    LabelIf(mask, Clear, "CLEAR") \o
    LabelIf(mask, PassBoundary, "PASS") \o
    LabelIf(mask, SetMarker, "MARKER") \o
    LabelIf(mask, PushMarker, "END") \o
    LabelIf(mask, PopMarker, "BEGIN")

\* The labels appended to flags, in the order of the seven tests.
FlagLabels(mask) ==
    LabelIf(mask, Drawcall, "DRAW") \o
    LabelIf(mask, Dispatch, "DISPATCH") \o
    LabelIf(mask, Clear, "CLEAR") \o
    LabelIf(mask, PassBoundary, "PASS") \o
    LabelIf(mask, SetMarker, "MARKER") \o
    LabelIf(mask, PushMarker, "BEGIN") \o
    LabelIf(mask, PopMarker, "END")

\* ','.join(flags), as the sequence of its tokens.
RECURSIVE Join(_)
Join(labels) ==
    IF Len(labels) <= 1 THEN labels
    ELSE <<Head(labels), ",">> \o Join(Tail(labels))

\* f" [{','.join(flags)}]" if flags else ""
FlagStr(labels) ==
    IF labels # <<>> THEN <<" [">> \o Join(labels) \o <<"]">> ELSE <<>>

\* Faulty variant: the depth threshold of the print test off by one.
ShouldPrintBelowOne(depth, mask) == depth < 1 \/ (mask \cap {Drawcall, Clear}) # {}

\* depth < 2 or (action.flags & (Drawcall | Clear))
ShouldPrint(depth, mask) == depth < 2 \/ (mask \cap {Drawcall, Clear}) # {}

\* if depth < 3: print(...)
PrintsLine(depth) == depth < 3

\* Faulty variant: the recursion guard off by one.
MayRecurseBelowFour(kids, depth) == Len(kids) > 0 /\ depth < 4

\* Faulty variant: the recursion guard without its depth test.
MayRecurseAnyDepth(kids, depth) == Len(kids) > 0

\* len(action.children) > 0 and depth < 3
MayRecurse(kids, depth) == Len(kids) > 0 /\ depth < 3

\* action.customName if action.customName else f"EID {action.eventId}"
ActionName(customName, eventId) ==
    IF customName # "" THEN <<customName>> ELSE <<"EID ", eventId>>

Rule == Line("rule", 80)

hostVars == <<entry, capture, injected, importable, modname>>
countVars == <<actions, total_draws, total_dispatches, cstack, counted>>
texVars == <<textures, ti, render_targets, depth_targets, regular_textures, li>>
printVars == <<pstack, visits>>

(***************************************************************************)
(* Initial states.                                                         *)
(***************************************************************************)
Unbound ==
    /\ actions = <<>>
    /\ total_draws = 0
    /\ total_dispatches = 0
    /\ cstack = <<>>
    /\ counted = <<>>
    /\ textures = <<>>
    /\ ti = 1
    /\ render_targets = <<>>
    /\ depth_targets = <<>>
    /\ regular_textures = <<>>
    /\ li = 1
    /\ visits = <<>>
    /\ calls = <<>>
    /\ out = <<>>

ModuleNames == {"__name__", "rd", "os", "analyze_capture", "main"}

\* The script file is executed, inside the host or by a plain interpreter.
InitScript ==
    /\ entry = "script"
    /\ capture = Capture(ExampleGraph, ExampleTextures, 2)
    /\ injected \in SUBSET HostNames
    /\ importable \in BOOLEAN
    /\ modname \in {"__main__", "analyze_rdc"}
    /\ globals = injected \cup {"__name__"}
    /\ pc = "import"
    /\ pstack = <<>>
    /\ Unbound

\* analyze_capture(controller) is called with a controller over any capture.
InitAnalyze ==
    /\ entry = "analyze_capture"
    /\ capture \in
          {Capture(g, ExampleTextures, 0) : g \in Forests \cup CyclicGraphs \cup DeepChains}
          \cup {Capture(ExampleGraph, t, 2) : t \in TextureLists}
    /\ injected = {}
    /\ importable = TRUE
    /\ modname = "analyze_rdc"
    /\ globals = ModuleNames
    /\ pc = "analyze"
    /\ pstack = <<>>
    /\ Unbound

\* print_actions(actions) alone, on the structures count_actions cannot get
\* through.
InitPrint ==
    /\ entry = "print_actions"
    /\ capture \in {Capture(g, ExampleTextures, 0) : g \in CyclicGraphs \cup DeepChains}
    /\ injected = {}
    /\ importable = TRUE
    /\ modname = "analyze_rdc"
    /\ globals = ModuleNames
    /\ pc = "print"
    /\ pstack = <<[list |-> capture.roots, i |-> 1, depth |-> 0]>>
    /\ Unbound

Init == InitScript \/ InitAnalyze \/ InitPrint

(***************************************************************************)
(* Module level.                                                           *)
(***************************************************************************)
\* import renderdoc as rd; import os
Import ==
    /\ pc = "import"
    /\ IF importable
       THEN /\ globals' = globals \cup {"rd", "os"}
            /\ pc' = "module"
       ELSE /\ globals' = globals
            /\ pc' = "fault"
    /\ UNCHANGED <<hostVars, countVars, texVars, printVars, calls, out>>

\* def analyze_capture, def main, if __name__ == "__main__": main()
ModuleBody ==
    /\ pc = "module"
    /\ globals' = globals \cup {"analyze_capture", "main"}
    /\ pc' = IF modname = "__main__" THEN "main" ELSE "exit"
    /\ UNCHANGED <<hostVars, countVars, texVars, printVars, calls, out>>

\* main()
Main ==
    /\ pc = "main"
    /\ IF "pyrenderdoc" \in Dir(MainLocals)
       THEN /\ pc' = IF "pyrenderdoc" \in globals THEN "analyze" ELSE "fault"
            /\ out' = out
       ELSE /\ out' = Append(out, UsageLine)
            /\ pc' = "exit"
    /\ UNCHANGED <<hostVars, globals, countVars, texVars, printVars, calls>>

(***************************************************************************)
(* analyze_capture.                                                        *)
(***************************************************************************)
\* The banner, the API line, GetRootActions, and the call count_actions(actions).
AnalyzeBegin ==
    /\ pc = "analyze"
    /\ out' = out \o <<Rule, Line("text", "RenderDoc Capture Analysis"), Rule,
                       Line("api", capture.api)>>
    /\ calls' = calls \o <<"GetAPIProperties", "GetRootActions">>
    /\ actions' = capture.roots
    /\ total_draws' = 0
    /\ total_dispatches' = 0
    /\ cstack' = <<[list |-> capture.roots, i |-> 1]>>
    /\ pc' = "count"
    /\ UNCHANGED <<hostVars, globals, counted, texVars, printVars>>

\* One iteration of "for action in action_list" in count_actions.
CountStep ==
    /\ pc = "count"
    /\ cstack # <<>>
    /\ LET top == cstack[Len(cstack)]
       IN  /\ top.i <= Len(top.list)
           /\ LET a == top.list[top.i]
                  mask == capture.flags[a]
                  kids == capture.children[a]
                  resumed == [cstack EXCEPT ![Len(cstack)].i = @ + 1]
              IN  /\ total_draws' = total_draws + (IF CountsAsDraw(mask) THEN 1 ELSE 0)
                  /\ total_dispatches' =
                        total_dispatches + (IF CountsAsDispatch(mask) THEN 1 ELSE 0)
                  /\ counted' = counted
                        \o (IF CountsAsDraw(mask) THEN << <<a, "draw">> >> ELSE <<>>)
                        \o (IF CountsAsDispatch(mask) THEN << <<a, "dispatch">> >> ELSE <<>>)
                  /\ IF HasChildren(kids)
                     THEN IF CanCall(cstack)
                          THEN /\ cstack' = Append(resumed, [list |-> kids, i |-> 1])
                               /\ pc' = pc
                          ELSE /\ cstack' = cstack
                               /\ pc' = "fault"
                     ELSE /\ cstack' = resumed
                          /\ pc' = pc
    /\ UNCHANGED <<hostVars, globals, actions, texVars, printVars, calls, out>>

\* count_actions returns to its caller.
CountReturn ==
    /\ pc = "count"
    /\ cstack # <<>>
    /\ cstack[Len(cstack)].i > Len(cstack[Len(cstack)].list)
    /\ cstack' = SubSeq(cstack, 1, Len(cstack) - 1)
    /\ UNCHANGED <<hostVars, globals, pc, actions, total_draws, total_dispatches,
                   counted, texVars, printVars, calls, out>>

\* The two totals, GetTextures, the texture count, the three empty lists.
ReportCounts ==
    /\ pc = "count"
    /\ cstack = <<>>
    /\ calls' = Append(calls, "GetTextures")
    /\ textures' = capture.textures
    /\ out' = out \o <<Line("draws", total_draws), Line("dispatches", total_dispatches),
                       Line("textures", Len(capture.textures))>>
    /\ render_targets' = <<>>
    /\ depth_targets' = <<>>
    /\ regular_textures' = <<>>
    /\ ti' = 1
    /\ pc' = "classify"
    /\ UNCHANGED <<hostVars, globals, countVars, li, printVars>>

\* One iteration of "for tex in textures".
ClassifyStep ==
    /\ pc = "classify"
    /\ ti <= Len(textures)
    /\ LET tex == textures[ti]
           list == Classify(tex.creationFlags)
       IN  /\ render_targets' =
                 IF list = "render_targets" THEN ListAppend(render_targets, tex)
                 ELSE render_targets
           /\ depth_targets' =
                 IF list = "depth_targets" THEN ListAppend(depth_targets, tex)
                 ELSE depth_targets
           /\ regular_textures' =
                 IF list = "regular_textures" THEN ListAppend(regular_textures, tex)
                 ELSE regular_textures
    /\ ti' = ti + 1
    /\ UNCHANGED <<hostVars, globals, pc, countVars, textures, li, printVars, calls, out>>

\* The three category counts and, if render_targets is not empty, the
\* "Render Targets:" header; the listing loop runs over render_targets[:20],
\* which is empty exactly when the "if render_targets" body is skipped.
ReportTextures ==
    /\ pc = "classify"
    /\ ti > Len(textures)
    /\ out' = out \o <<Line("render_targets", Len(render_targets)),
                       Line("depth_targets", Len(depth_targets)),
                       Line("regular_textures", Len(regular_textures))>>
                  \o (IF render_targets # <<>> THEN <<Line("rt_header", "Render Targets:")>>
                      ELSE <<>>)
    /\ li' = 1
    /\ pc' = "listing"
    /\ UNCHANGED <<hostVars, globals, countVars, textures, ti, render_targets,
                   depth_targets, regular_textures, printVars, calls>>

\* One iteration of "for tex in render_targets[:20]".
ListStep ==
    /\ pc = "listing"
    /\ li <= Len(Take(render_targets, ListingCap))
    /\ LET tex == Take(render_targets, ListingCap)[li]
       IN  out' = Append(out, Line("rt", <<tex.resourceId, tex.width, tex.height,
                                           FormatLabel(tex.format)>>))
    /\ li' = li + 1
    /\ UNCHANGED <<hostVars, globals, pc, countVars, textures, ti, render_targets,
                   depth_targets, regular_textures, printVars, calls>>

\* GetBuffers, the buffer count, the heading, and the call print_actions(actions).
ReportBuffers ==
    /\ pc = "listing"
    /\ li > Len(Take(render_targets, ListingCap))
    /\ calls' = Append(calls, "GetBuffers")
    /\ out' = out \o <<Line("buffers", Len(capture.buffers)), Rule,
                       Line("text", "Action Structure (top-level passes):"), Rule>>
    /\ pstack' = <<[list |-> actions, i |-> 1, depth |-> 0]>>
    /\ pc' = "print"
    /\ UNCHANGED <<hostVars, globals, countVars, texVars, visits>>

\* One iteration of "for action in action_list" in print_actions.
PrintStep ==
    /\ pc = "print"
    /\ pstack # <<>>
    /\ LET top == pstack[Len(pstack)]
       IN  /\ top.i <= Len(top.list)
           /\ LET a == top.list[top.i]
                  depth == top.depth
                  mask == capture.flags[a]
                  kids == capture.children[a]
                  flag_str == FlagStr(FlagLabels(mask))
                  name == ActionName(capture.customName[a], capture.eventId[a])
                  resumed == [pstack EXCEPT ![Len(pstack)].i = @ + 1]
              IN  /\ visits' = Append(visits, <<a, depth>>)
                  /\ out' = IF ShouldPrint(depth, mask) /\ PrintsLine(depth)
                            THEN Append(out, Line("action",
                                    [indent |-> depth, eventId |-> capture.eventId[a],
                                     name |-> name, flag_str |-> flag_str]))
                            ELSE out
                  /\ IF MayRecurse(kids, depth)
                     THEN IF CanCall(pstack)
                          THEN /\ pstack' = Append(resumed,
                                      [list |-> kids, i |-> 1, depth |-> depth + 1])
                               /\ pc' = pc
                          ELSE /\ pstack' = pstack
                               /\ pc' = "fault"
                     ELSE /\ pstack' = resumed
                          /\ pc' = pc
    /\ UNCHANGED <<hostVars, globals, countVars, texVars, calls>>

\* print_actions returns to its caller.
PrintReturn ==
    /\ pc = "print"
    /\ pstack # <<>>
    /\ pstack[Len(pstack)].i > Len(pstack[Len(pstack)].list)
    /\ pstack' = SubSeq(pstack, 1, Len(pstack) - 1)
    /\ UNCHANGED <<hostVars, globals, pc, countVars, texVars, visits, calls, out>>

\* The closing banner of analyze_capture.
Finish ==
    /\ pc = "print"
    /\ pstack = <<>>
    /\ out' = IF entry = "print_actions" THEN out
              ELSE out \o <<Rule, Line("text", "Analysis complete"), Rule>>
    /\ pc' = "done"
    /\ UNCHANGED <<hostVars, globals, countVars, texVars, printVars, calls>>

Next ==
    \/ Import
    \/ ModuleBody
    \/ Main
    \/ AnalyzeBegin
    \/ CountStep
    \/ CountReturn
    \/ ReportCounts
    \/ ClassifyStep
    \/ ReportTextures
    \/ ListStep
    \/ ReportBuffers
    \/ PrintStep
    \/ PrintReturn
    \/ Finish

Spec == Init /\ [][Next]_vars

\* The interpreter runs the script to its end: it never pauses forever
\* while a statement remains to be executed.
LiveSpec == Spec /\ WF_vars(Next)

(***************************************************************************)
(* Vocabulary of the properties.                                           *)
(***************************************************************************)
Nodes(c) == DOMAIN c.flags

KidsOf(c, S) == UNION {Range(c.children[v]) : v \in S}

RECURSIVE Closure(_, _, _)
Closure(c, S, k) == IF k = 0 THEN S ELSE Closure(c, S \cup KidsOf(c, S), k - 1)

\* The nodes reachable from the children of v.
Descendants(c, v) == Closure(c, Range(c.children[v]), Cardinality(Nodes(c)))

\* Some node handed to the walks is reachable from its own children.
Cyclic(c) ==
    \E v \in Closure(c, Range(c.roots), Cardinality(Nodes(c))) : v \in Descendants(c, v)

\* The <<node, depth>> pairs of an acyclic forest, the root list at depth d.
RECURSIVE Levels(_, _, _)
Levels(c, list, d) ==
    UNION { {<<list[k], d>>} \cup Levels(c, c.children[list[k]], d + 1) : k \in 1..Len(list) }

TreeLevels == Levels(capture, capture.roots, 0)

\* The forest nests no deeper than the interpreter lets count_actions recurse.
Fits(c) == \A nd \in Levels(c, c.roots, 0) : nd[2] < RecursionLimit

ActionLines == SelectSeq(out, LAMBDA l : l.kind = "action")

Printed(v) ==
    \E k \in 1..Len(ActionLines) : ActionLines[k].data.eventId = capture.eventId[v]

Analyzing == entry = "analyze_capture"

\* count_actions(actions) has returned to analyze_capture.
CountReturned ==
    Analyzing /\ (pc \in {"classify", "listing", "print", "done"} \/ (pc = "count" /\ cstack = <<>>))

\* The classification loop is over.
ClassifyDone ==
    Analyzing /\ (pc \in {"listing", "print", "done"} \/ (pc = "classify" /\ ti > Len(textures)))

\* The render-target listing is over.
ListingDone == Analyzing /\ pc \in {"print", "done"}

\* The display walk is over, on an acyclic forest.
DisplayDone == entry # "script" /\ pc = "done" /\ ~Cyclic(capture)

HasBit(bit) == {v \in Nodes(capture) : bit \in capture.flags[v]}

\* count_actions as a function of the forest: <<draws, dispatches>> added to acc.
RECURSIVE CountWalk(_, _, _)
CountWalk(c, list, acc) ==
    IF list = <<>> THEN acc
    ELSE LET a == Head(list)
             seen == << acc[1] + (IF CountsAsDraw(c.flags[a]) THEN 1 ELSE 0),
                        acc[2] + (IF CountsAsDispatch(c.flags[a]) THEN 1 ELSE 0) >>
             below == IF HasChildren(c.children[a]) THEN CountWalk(c, c.children[a], seen)
                      ELSE seen
         IN  CountWalk(c, Tail(list), below)

Reverse(s) == [k \in 1..Len(s) |-> s[Len(s) + 1 - k]]

Rotate(s) == IF s = <<>> THEN s ELSE Append(Tail(s), Head(s))

\* The capture with the siblings of every node in reverse order, and with
\* the first sibling of every node moved to the end.
Reorderings(c) ==
    { [c EXCEPT !.roots = Reverse(c.roots),
                !.children = [v \in Nodes(c) |-> Reverse(c.children[v])]],
      [c EXCEPT !.roots = Rotate(c.roots),
                !.children = [v \in Nodes(c) |-> Rotate(c.children[v])]] }

Times(s, x) == Cardinality({k \in 1..Len(s) : s[k] = x})

(***************************************************************************)
(* C1: once count_actions(actions) has returned, total_draws is the number *)
(* of nodes of the whole forest with the Drawcall bit and total_dispatches *)
(* the number with the Dispatch bit; a node with both bits is counted once *)
(* in each; reordering the siblings leaves both counts unchanged.          *)
(***************************************************************************)
C1_CountsAllNodes ==
    CountReturned =>
        /\ total_draws = Cardinality(HasBit(Drawcall))
        /\ total_dispatches = Cardinality(HasBit(Dispatch))
        /\ \A v \in Nodes(capture) :
              /\ Times(counted, <<v, "draw">>) = (IF Drawcall \in capture.flags[v] THEN 1 ELSE 0)
              /\ Times(counted, <<v, "dispatch">>) = (IF Dispatch \in capture.flags[v] THEN 1 ELSE 0)
        /\ \A r \in Reorderings(capture) :
              CountWalk(r, r.roots, <<0, 0>>) = <<total_draws, total_dispatches>>

\* A forest three levels deep with several siblings and a node carrying both
\* bits has been counted.
C1_Witness ==
    /\ CountReturned
    /\ HasBit(Drawcall) \cap HasBit(Dispatch) # {}
    /\ \E nd \in TreeLevels : nd[2] >= 2
    /\ Len(capture.roots) >= 2
    /\ total_draws >= 2
    /\ total_draws # total_dispatches

(***************************************************************************)
(* C4: after the classification loop render_targets, depth_targets and     *)
(* regular_textures are pairwise disjoint, every input texture is in       *)
(* exactly one of them, their lengths sum to len(textures), and each keeps *)
(* its members in input order.                                             *)
(***************************************************************************)
Position(t) == CHOOSE k \in 1..Len(textures) : textures[k] = t

InInputOrder(list) ==
    \A i, j \in 1..Len(list) : i < j => Position(list[i]) < Position(list[j])

C4_Partition ==
    ClassifyDone =>
        /\ Range(render_targets) \cap Range(depth_targets) = {}
        /\ Range(render_targets) \cap Range(regular_textures) = {}
        /\ Range(depth_targets) \cap Range(regular_textures) = {}
        /\ Len(render_targets) + Len(depth_targets) + Len(regular_textures) = Len(textures)
        /\ \A k \in 1..Len(textures) :
              Times(render_targets, textures[k]) + Times(depth_targets, textures[k])
                  + Times(regular_textures, textures[k]) = 1
        /\ Range(render_targets) \cup Range(depth_targets) \cup Range(regular_textures)
              = Range(textures)
        /\ InInputOrder(render_targets)
        /\ InInputOrder(depth_targets)
        /\ InInputOrder(regular_textures)

\* A texture list that puts at least two textures in each of the three lists.
C4_Witness ==
    /\ ClassifyDone
    /\ Len(render_targets) >= 2
    /\ Len(depth_targets) >= 2
    /\ Len(regular_textures) >= 2

(***************************************************************************)
(* C5: classification is first-match-wins, color first: a texture is in    *)
(* render_targets exactly when ColorTarget is set (also when DepthTarget   *)
(* is set too), in depth_targets exactly when DepthTarget is set and       *)
(* ColorTarget is not, in regular_textures exactly when neither is set.    *)
(***************************************************************************)
C5_FirstMatch ==
    ClassifyDone =>
        \A k \in 1..Len(textures) :
            LET t == textures[k]
                m == t.creationFlags
            IN  /\ t \in Range(render_targets) <=> ColorTarget \in m
                /\ t \in Range(depth_targets) <=> (DepthTarget \in m /\ ColorTarget \notin m)
                /\ t \in Range(regular_textures) <=> (m \cap {ColorTarget, DepthTarget} = {})

\* A texture with both bits went to render_targets, a depth-only texture to
\* depth_targets and a texture with neither bit to regular_textures.
C5_Witness ==
    /\ ClassifyDone
    /\ \E k \in 1..Len(render_targets) :
          {ColorTarget, DepthTarget} \subseteq render_targets[k].creationFlags
    /\ \E k \in 1..Len(depth_targets) : DepthTarget \in depth_targets[k].creationFlags
    /\ \E k \in 1..Len(regular_textures) : regular_textures[k].creationFlags = {}

(***************************************************************************)
(* C6: the display walk never prints a line for a node at depth >= 3 and   *)
(* print_actions is never invoked with depth > 3, so no node at depth >= 4 *)
(* is ever visited, whatever its flags.                                    *)
(***************************************************************************)
C6_DepthBound ==
    /\ \A k \in 1..Len(pstack) : pstack[k].depth <= 3
    /\ \A k \in 1..Len(visits) : visits[k][2] <= 3
    /\ \A k \in 1..Len(ActionLines) : ActionLines[k].data.indent < 3
    /\ (entry # "script" /\ pc \in {"print", "done"} /\ ~Cyclic(capture)) =>
          \A nd \in TreeLevels :
              /\ nd[2] >= 3 => ~Printed(nd[1])
              /\ nd[2] >= 4 => \A k \in 1..Len(visits) : visits[k][1] # nd[1]

\* The walk is over on a forest with a draw node at depth 3, which was
\* visited, and a node at depth 4.
C6_Witness ==
    /\ DisplayDone
    /\ \E nd \in TreeLevels :
          nd[2] = 3 /\ Drawcall \in capture.flags[nd[1]] /\ nd \in Range(visits)
    /\ \E nd \in TreeLevels : nd[2] = 4

OfKind(kind) == SelectSeq(out, LAMBDA l : l.kind = kind)

ColorInputs == SelectSeq(capture.textures, LAMBDA t : ColorTarget \in t.creationFlags)

C8_ListingCap ==
    ListingDone =>
        LET n == Len(ColorInputs)
            rt == OfKind("rt")
        IN  /\ Len(rt) = Min(n, 20)
            /\ \A k \in 1..Len(rt) : rt[k].data[1] = ColorInputs[k].resourceId
            /\ Len(OfKind("render_targets")) = 1
            /\ OfKind("render_targets")[1].data = n
            /\ Len(OfKind("rt_header")) = (IF n = 0 THEN 0 ELSE 1)

\* More than 20 color targets, with other textures between them, were
\* classified and listed.
C8_Witness ==
    /\ ListingDone
    /\ Len(render_targets) > 20
    /\ Len(regular_textures) > 0

(***************************************************************************)
(* C9: on every printed action line the labels DRAW, DISPATCH, CLEAR,      *)
(* PASS, MARKER, BEGIN, END appear exactly when the Drawcall, Dispatch,    *)
(* Clear, PassBoundary, SetMarker, PushMarker, PopMarker bit is set, in    *)
(* that order and once each; the bracket is omitted when none of the seven *)
(* is set; DRAW / DISPATCH appear exactly when the counting walk counted   *)
(* the node as a draw / dispatch.                                          *)
(***************************************************************************)
LabelOrder == <<"DRAW", "DISPATCH", "CLEAR", "PASS", "MARKER", "BEGIN", "END">>

BitOrder ==
    <<Drawcall, Dispatch, Clear, PassBoundary, SetMarker, PushMarker, PopMarker>>

NodeOf(e) == CHOOSE v \in Nodes(capture) : capture.eventId[v] = e

LabelsIn(flag_str) == SelectSeq(flag_str, LAMBDA tok : tok \in Range(LabelOrder))

Rank(label) == CHOOSE k \in 1..Len(LabelOrder) : LabelOrder[k] = label

C9_FlagLabels ==
    \A k \in 1..Len(ActionLines) :
        LET fs == ActionLines[k].data.flag_str
            v == NodeOf(ActionLines[k].data.eventId)
            m == capture.flags[v]
            labels == LabelsIn(fs)
        IN  /\ \A b \in 1..Len(BitOrder) : LabelOrder[b] \in Range(fs) <=> BitOrder[b] \in m
            /\ \A i, j \in 1..Len(labels) : i < j => Rank(labels[i]) < Rank(labels[j])
            /\ fs = <<>> <=> m \cap Range(BitOrder) = {}
            /\ fs # <<>> => fs = <<" [">> \o Join(labels) \o <<"]">>
            /\ Analyzing =>
                  /\ "DRAW" \in Range(fs) <=> <<v, "draw">> \in Range(counted)
                  /\ "DISPATCH" \in Range(fs) <=> <<v, "dispatch">> \in Range(counted)

\* A line with all seven labels, a line without bracket for a node whose
\* only bits are untested ones or none, and a DISPATCH-only line were printed.
C9_Witness ==
    /\ Analyzing
    /\ \E k \in 1..Len(ActionLines) : LabelsIn(ActionLines[k].data.flag_str) = LabelOrder
    /\ \E k \in 1..Len(ActionLines) : ActionLines[k].data.flag_str = <<>>
    /\ \E k \in 1..Len(ActionLines) : ActionLines[k].data.flag_str = <<" [", "DISPATCH", "]">>

(***************************************************************************)
(* C10, as amended: on every acyclic forest that nests no deeper than the  *)
(* interpreter's recursion limit analyze_capture terminates at the final   *)
(* banner; on a structure with a node reachable from its own children      *)
(* count_actions never returns: it recurses until the interpreter raises   *)
(* RecursionError, so analyze_capture ends in that fault before it prints  *)
(* the totals; print_actions alone terminates on any structure with finite *)
(* child lists, cyclic or not.                                             *)
(***************************************************************************)
Banner == <<Rule, Line("text", "Analysis complete"), Rule>>

C10_Termination ==
    /\ (Analyzing /\ ~Cyclic(capture) /\ Fits(capture)) ~> (pc = "done")
    /\ []((Analyzing /\ pc = "done") =>
             SubSeq(out, Len(out) - 2, Len(out)) = Banner)
    /\ []((Analyzing /\ Cyclic(capture)) =>
             (pc \in {"analyze", "count", "fault"} /\ OfKind("draws") = <<>>))
    /\ (Analyzing /\ Cyclic(capture)) ~> (pc = "fault")
    /\ (entry = "print_actions") ~> (pc = "done")
    /\ [](entry = "print_actions" => pc # "fault")

\* print_actions has returned from a cyclic structure, having visited some
\* node more than once.
C10_Witness ==
    /\ entry = "print_actions"
    /\ Cyclic(capture)
    /\ pc = "done"
    /\ \E i, j \in 1..Len(visits) : i < j /\ visits[i][1] = visits[j][1]

\* C10 as stated: analyze_capture ends at the banner on every acyclic
\* forest, count_actions never ends on a cyclic structure, print_actions
\* ends on any structure.
C10_AsStated ==
    /\ (Analyzing /\ ~Cyclic(capture)) => pc # "fault"
    /\ (Analyzing /\ Cyclic(capture)) => pc \notin {"done", "fault"}
    /\ entry = "print_actions" => pc # "fault"

(***************************************************************************)
(* C2: whenever the host has injected the name pyrenderdoc into the module *)
(* namespace, main() takes the analysis branch (it calls analyze_capture)  *)
(* and does not print the usage message.                                   *)
(***************************************************************************)
C2_InjectedRunsAnalysis ==
    (entry = "script" /\ "pyrenderdoc" \in injected) =>
        /\ UsageLine \notin Range(out)
        /\ pc = "exit" /\ modname = "__main__" => calls # <<>>

(***************************************************************************)
(* C3: if pyrenderdoc is absent when the script is run, it prints the      *)
(* usage message and nothing else, calls no controller accessor, and ends  *)
(* normally, the module-level "import renderdoc" included.                 *)
(***************************************************************************)
C3_AbsentPrintsUsage ==
    (entry = "script" /\ modname = "__main__" /\ "pyrenderdoc" \notin injected) =>
        /\ pc # "fault"
        /\ calls = <<>>
        /\ Range(out) \subseteq {UsageLine}
        /\ pc = "exit" => out = <<UsageLine>>

====
